---- MODULE Spec2Model ----
(***************************************************************************)
(* SiCDS (ushahidi/SiCDS): the content de-duplication service of           *)
(* sicds/app.py.  One SiCDSApp object serves POST / (identify) and         *)
(* POST /register (register-key) against a key-scoped fact store.          *)
(*                                                                         *)
(* Spec is request-level: one action handles one call of                   *)
(* SiCDSApp.__call__ from the first routing check to the response.         *)
(* SpecFail is Spec over a store whose calls may raise.  SpecRace runs     *)
(* two identify calls at once, one step per store call of _process.  The   *)
(* store (sicds/base.py and its back ends) and the schema validator        *)
(* (sicds/schema.py) are not part of the sources at hand; they are         *)
(* modelled from the interface the design document gives them.             *)
(***************************************************************************)
EXTENDS Naturals, Sequences, FiniteSets

VARIABLES
    keys,       \* SiCDSApp.keys: the in-memory set of authorized keys
    storeKeys,  \* the store's persisted key ledger
    facts,      \* the store's facts: pairs <<key, set of difs>>
    req,        \* the request of the call handled last
    resp,       \* its response: [status, body]
    calls,      \* the store calls that call made, in order
    verdicts,   \* the value of `uniq` at app.py:143 for each item, in item order
    audit,      \* the logger calls that call made, in order
    hadKey,     \* history: whether the authorized set held the key that call's
                \* request names (key or newkey) before the call
    known,      \* history: <<key, set of difs>> of every collection carried
                \* by an identify request that ended in 200 before that call
    reordered,  \* history: the places <<item, collection>> of that call whose
                \* difs are those of a collection of the successful identify
                \* call right before it, under the same key, in another order
    threads     \* the identify calls in progress at the same time, one per
                \* worker of the hosting layer: each one's request and its
                \* position in _process

vars == <<keys, storeKeys, facts, req, resp, calls, verdicts, audit, hadKey, known,
          reordered, threads>>

----------------------------------------------------------------------------
(* Bounds and universes *)

\* The largest number of difs one identify request carries in total.
MaxBodyDifs == 2

\* app.py:91
REQMAXBYTES == 1024

Keys == {"k1", "k2"}
SeedKeys == {"k1"}
SUPERKEY == "sk"
SuperKeys == {"sk", "wrong"}
ItemIds == {"x", "y"}
CollNames == {"c"}
Dif == [type : {"t"}, value : {"v1", "v2"}]

\* DifCollection values holding exactly n difs (app.py:42-43).
CollsOfSize(n) == [name : CollNames, difs : [1..n -> Dif]]

\* Non-empty sequences of DifCollections holding n difs in total.
RECURSIVE CollSeqsOfSize(_)
CollSeqsOfSize(n) ==
    IF n = 0 THEN {<<>>}
    ELSE UNION {{<<c>> \o rest : c \in CollsOfSize(k), rest \in CollSeqsOfSize(n - k)}
                : k \in 1..n}

\* The difcollections of the items of a request holding n difs in total.
RECURSIVE ItemCollSeqsOfSize(_)
ItemCollSeqsOfSize(n) ==
    IF n = 0 THEN {<<>>}
    ELSE UNION {{<<cs>> \o rest : cs \in CollSeqsOfSize(k), rest \in ItemCollSeqsOfSize(n - k)}
                : k \in 1..n}

\* The ids of the n items of a request: a single item takes any id, several
\* items take x, y, x, ... in turn.
IdSeqs(n) ==
    IF n = 1 THEN [1..1 -> ItemIds]
    ELSE {[i \in 1..n |-> IF i % 2 = 1 THEN "x" ELSE "y"]}

\* ContentItem sequences (app.py:45-46, 75) holding n difs in total.
ItemSeqsOfSize(n) ==
    UNION {{[i \in 1..Len(css) |-> [id |-> ids[i], difcollections |-> css[i]]] :
                ids \in IdSeqs(Len(css))} :
           css \in ItemCollSeqsOfSize(n)}

ContentItemSeqs == UNION {ItemSeqsOfSize(n) : n \in 1..MaxBodyDifs}

\* A request as __call__ sees it: path_info, method, content_length and the
\* body; `parses` says whether json.loads accepts the body, `json` is what
\* it returns.
Request(path, method, len, parses, json) ==
    [path_info |-> path, method |-> method, content_length |-> len,
     parses |-> parses, json |-> json]

IDBodies == [key : Keys, contentItems : ContentItemSeqs]
RegBodies == [superkey : SuperKeys, newkey : Keys]

SampleIDBody ==
    [key |-> "k1",
     contentItems |-> <<[id |-> "x", difcollections |->
        <<[name |-> "c", difs |-> <<[type |-> "t", value |-> "v1"]>>]>>]>>]

IdentifyRequests == {Request("/", "POST", 100, TRUE, b) : b \in IDBodies}
RegisterRequests == {Request("/register", "POST", 100, TRUE, b) : b \in RegBodies}

\* Calls that stop at the route, the method, the declared length, the JSON
\* parse or the schema, and a well-formed call of exactly REQMAXBYTES bytes.
OtherRequests ==
    {Request("/other", "POST", 100, TRUE, SampleIDBody),
     Request("/other", "POST", REQMAXBYTES + 1, TRUE, SampleIDBody),
     Request("/other", "GET", REQMAXBYTES + 1, FALSE, SampleIDBody),
     Request("/", "GET", 100, TRUE, SampleIDBody),
     Request("/register", "GET", REQMAXBYTES + 1, TRUE, SampleIDBody),
     Request("/", "POST", REQMAXBYTES + 1, TRUE, SampleIDBody),
     Request("/", "POST", REQMAXBYTES + 1, FALSE, SampleIDBody),
     Request("/register", "POST", REQMAXBYTES + 1, TRUE, [superkey |-> "sk", newkey |-> "k2"]),
     Request("/", "POST", REQMAXBYTES, TRUE, SampleIDBody),
     Request("/", "POST", 100, FALSE, SampleIDBody),
     Request("/register", "POST", 100, TRUE, SampleIDBody)}

\* The JSON object {}.
EmptyObject == [f \in {} |-> 0]

SampleItem == SampleIDBody.contentItems[1]

\* Bodies that parse as JSON and break a schema: a required field missing,
\* an empty `many` field at each level, a field the schema does not declare.
InvalidIDBodies ==
    {EmptyObject,
     [key |-> "k1"],
     [key |-> "k1", contentItems |-> <<>>],
     [key |-> "k2", contentItems |-> <<>>],
     [key |-> "k1", contentItems |-> <<[id |-> "x", difcollections |-> <<>>]>>],
     [key |-> "k1", contentItems |-> <<SampleItem,
        [id |-> "y", difcollections |-> <<[name |-> "c", difs |-> <<>>]>>]>>],
     [key |-> "k1", contentItems |-> <<SampleItem>>, extra |-> "extra"]}

InvalidRegBodies ==
    {[superkey |-> "sk"],
     [superkey |-> "wrong"],
     [superkey |-> "sk", newkey |-> "k2", extra |-> "extra"]}

InvalidRequests ==
    {Request("/", "POST", 100, TRUE, b) : b \in InvalidIDBodies}
    \cup {Request("/register", "POST", 100, TRUE, b) : b \in InvalidRegBodies}

Loggers == <<"log1", "log2">>

NoRequest == Request("", "", 0, FALSE, <<>>)
NoResponse == [status |-> 0, body |-> <<>>]

----------------------------------------------------------------------------
(* The store: has, add, register_key, ensure_keys *)

\* A store that keeps the difs in the order given.
DifSetOrdered(difs) == difs

\* The store's identity of a collection: the unordered set of its difs.
DifSet(difs) == {difs[i] : i \in DOMAIN difs}

StoreHas(fs, key, difs) == <<key, DifSet(difs)>> \in fs

StoreAdd(fs, key, difs) == fs \cup {<<key, DifSet(difs)>>}

\* register_key persists the key and tells whether it was new.
StoreRegisterKey(sk, newkey) ==
    [storeKeys |-> sk \cup {newkey}, registered |-> newkey \notin sk]

StoreEnsureKeys(sk, ks) == sk \cup ks

HasCall(key, difs, ret) == [op |-> "has", key |-> key, difs |-> difs, ret |-> ret]
AddCall(key, difs) == [op |-> "add", key |-> key, difs |-> difs, ret |-> TRUE]
RegCall(newkey, ret) == [op |-> "register_key", key |-> newkey, difs |-> <<>>, ret |-> ret]

\* A store call that raised instead of returning.
RaisedCall(op, key, difs) == [op |-> op, key |-> key, difs |-> difs, ret |-> FALSE]

RaisedOps == {"has raised", "add raised", "register_key raised"}

----------------------------------------------------------------------------
(* Schemas *)

v_keyregresultSwapped(registered) ==
    IF registered THEN "already registered" ELSE "registered"

v_keyregresult(registered) == IF registered THEN "registered" ELSE "already registered"

v_idresult(uniq) == IF uniq THEN "unique" ELSE "duplicate"

IDResult(id, uniq) == [id |-> id, result |-> v_idresult(uniq)]

IDResponse(key, results) == [key |-> key, results |-> results]

KeyRegResponse(key, registered) ==
    [key |-> key, registered |-> v_keyregresult(registered)]

\* A validator that lets undeclared fields through.
ValidIDRequestOpen(json) ==
    /\ {"key", "contentItems"} \subseteq DOMAIN json
    /\ Len(json.contentItems) >= 1

\* A closed object: exactly the required fields, every `many` field non-empty.
ValidDif(d) == DOMAIN d = {"type", "value"}

ValidDifCollection(c) ==
    /\ DOMAIN c = {"name", "difs"}
    /\ Len(c.difs) >= 1
    /\ \A i \in DOMAIN c.difs : ValidDif(c.difs[i])

ValidContentItem(it) ==
    /\ DOMAIN it = {"id", "difcollections"}
    /\ Len(it.difcollections) >= 1
    /\ \A i \in DOMAIN it.difcollections : ValidDifCollection(it.difcollections[i])

ValidIDRequest(json) ==
    /\ DOMAIN json = {"key", "contentItems"}
    /\ Len(json.contentItems) >= 1
    /\ \A i \in DOMAIN json.contentItems : ValidContentItem(json.contentItems[i])

ValidKeyRegRequest(json) == DOMAIN json = {"superkey", "newkey"}

----------------------------------------------------------------------------
(* SiCDSApp *)

\* What a handler leaves behind: the application's state, the response and
\* the calls it made.
Outcome(ks, sk, fs, status, body, cs, vs) ==
    [keys |-> ks, storeKeys |-> sk, facts |-> fs, status |-> status,
     body |-> body, calls |-> cs, verdicts |-> vs]

\* exc.HTTPForbidden, exc.HTTPNotFound, ...: the handler stops where it is.
Raise(app, status, cs) ==
    Outcome(app.keys, app.storeKeys, app.facts, status, <<>>, cs, <<>>)

\* __call__ without `except Exception`: the failure reaches the server.
InternalError(app, fs, cs) ==
    Outcome(app.keys, app.storeKeys, fs, 500, <<>>, cs, <<>>)

\* `except Exception` (app.py:174-176): whatever a handler raised that is no
\* HTTP error becomes 400; what the store recorded before it stays.
BadRequest(app, fs, cs) ==
    Outcome(app.keys, app.storeKeys, fs, 400, <<>>, cs, <<>>)

\* The inner loop without `self.store.add(key, difs)`.
CheckCollectionNoAdd(key, difs, st) ==
    IF StoreHas(st.facts, key, difs)
    THEN [st EXCEPT !.uniq = FALSE,
                    !.calls = Append(@, HasCall(key, difs, TRUE))]
    ELSE [st EXCEPT !.calls = Append(@, HasCall(key, difs, FALSE))]

\* The inner loop with `uniq = not self.store.has(key, difs)`: the last
\* collection decides.
CheckCollectionLastWins(key, difs, st) ==
    IF StoreHas(st.facts, key, difs)
    THEN [st EXCEPT !.uniq = FALSE,
                    !.calls = Append(@, HasCall(key, difs, TRUE))]
    ELSE [st EXCEPT !.uniq = TRUE,
                    !.facts = StoreAdd(@, key, difs),
                    !.calls = @ \o <<HasCall(key, difs, FALSE), AddCall(key, difs)>>]

\* The inner loop with the store called without the client's key: one
\* namespace for every client.
CheckCollectionSharedKey(key, difs, st) ==
    IF StoreHas(st.facts, "k1", difs)
    THEN [st EXCEPT !.uniq = FALSE,
                    !.calls = Append(@, HasCall("k1", difs, TRUE))]
    ELSE [st EXCEPT !.facts = StoreAdd(@, "k1", difs),
                    !.calls = @ \o <<HasCall("k1", difs, FALSE), AddCall("k1", difs)>>]

\* The inner loop with a `break` once the item is known to be a duplicate.
CheckCollectionShortCircuit(key, difs, st) ==
    IF ~st.uniq THEN st
    ELSE IF StoreHas(st.facts, key, difs)
    THEN [st EXCEPT !.uniq = FALSE,
                    !.calls = Append(@, HasCall(key, difs, TRUE))]
    ELSE [st EXCEPT !.facts = StoreAdd(@, key, difs),
                    !.calls = @ \o <<HasCall(key, difs, FALSE), AddCall(key, difs)>>]

\* One pass of the inner loop of _process.  st.fail is the store call of
\* this request that raises (0: none does); once a call has raised, the
\* exception is on its way out of _process and nothing more runs.
CheckCollection(key, difs, st) ==
    IF st.raised THEN st
    ELSE IF st.fail = Len(st.calls) + 1
    THEN [st EXCEPT !.raised = TRUE,
                    !.calls = Append(@, RaisedCall("has raised", key, difs))]
    ELSE IF StoreHas(st.facts, key, difs)
    THEN [st EXCEPT !.uniq = FALSE,
                    !.calls = Append(@, HasCall(key, difs, TRUE))]
    ELSE IF st.fail = Len(st.calls) + 2
    THEN [st EXCEPT !.raised = TRUE,
                    !.calls = @ \o <<HasCall(key, difs, FALSE),
                                     RaisedCall("add raised", key, difs)>>]
    ELSE [st EXCEPT !.facts = StoreAdd(@, key, difs),
                    !.calls = @ \o <<HasCall(key, difs, FALSE), AddCall(key, difs)>>]

\* for collection in item.difcollections
RECURSIVE ScanCollections(_, _, _)
ScanCollections(key, colls, st) ==
    IF colls = <<>> THEN st
    ELSE ScanCollections(key, Tail(colls), CheckCollection(key, Head(colls).difs, st))

\* if uniq: uniqitems.append(item.id) else: dupitems.append(item.id)
Classify(item, st) ==
    IF st.raised THEN st
    ELSE IF st.uniq
    THEN [st EXCEPT !.uniqitems = Append(@, item.id), !.verdicts = Append(@, TRUE)]
    ELSE [st EXCEPT !.dupitems = Append(@, item.id), !.verdicts = Append(@, FALSE)]

\* The outer loop with `uniq = True` set once, before the loop.
ProcessItemNoReset(key, item, st) ==
    Classify(item, ScanCollections(key, item.difcollections, st))

\* One pass of the outer loop of _process.
ProcessItem(key, item, st) ==
    Classify(item, ScanCollections(key, item.difcollections, [st EXCEPT !.uniq = TRUE]))

\* The outer loop with the writes batched: every item is checked against the
\* facts as they stood before the request, the additions are kept for its end.
RECURSIVE ProcessItemsBatched(_, _, _)
ProcessItemsBatched(key, items, st) ==
    IF items = <<>> THEN st
    ELSE LET one == ProcessItem(key, Head(items), st)
             rest == ProcessItemsBatched(key, Tail(items), [one EXCEPT !.facts = st.facts])
         IN  [rest EXCEPT !.facts = @ \cup one.facts]

RECURSIVE ProcessItems(_, _, _)
ProcessItems(key, items, st) ==
    IF items = <<>> THEN st
    ELSE ProcessItems(key, Tail(items), ProcessItem(key, Head(items), st))

_process(key, items, fs, fail) ==
    ProcessItems(key, items,
        [facts |-> fs, calls |-> <<>>, uniq |-> TRUE,
         uniqitems |-> <<>>, dupitems |-> <<>>, verdicts |-> <<>>,
         fail |-> fail, raised |-> FALSE])

\* The results of _identify: the unique ids, then the duplicate ids.
Results(uniq, dup) ==
    [i \in 1..Len(uniq) |-> IDResult(uniq[i], TRUE)]
    \o [i \in 1..Len(dup) |-> IDResult(dup[i], FALSE)]

\* _identify without `if data.key not in self.keys`.
AuthorizedAny(ks, key) == TRUE

Authorized(ks, key) == key \in ks

\* _identify over a store that undoes the request's additions when a call
\* of the request raises.
IdentifiedRollback(app, key, st) ==
    IF st.raised THEN BadRequest(app, app.facts, st.calls)
    ELSE Outcome(app.keys, app.storeKeys, st.facts, 200,
                 IDResponse(key, Results(st.uniqitems, st.dupitems)),
                 st.calls, st.verdicts)

\* The response of _identify to what _process returned; when a store call
\* raised, the exception leaves with what was recorded before it in place.
Identified(app, key, st) ==
    IF st.raised THEN BadRequest(app, st.facts, st.calls)
    ELSE Outcome(app.keys, app.storeKeys, st.facts, 200,
                 IDResponse(key, Results(st.uniqitems, st.dupitems)),
                 st.calls, st.verdicts)

\* _identify with the key looked up before the body is validated.
_identifyAuthFirst(app, json) ==
    IF "key" \in DOMAIN json /\ ~Authorized(app.keys, json.key) THEN Raise(app, 403, <<>>)
    ELSE IF ~ValidIDRequest(json) THEN Raise(app, 400, <<>>)
    ELSE Identified(app, json.key,
                    _process(json.key, json.contentItems, app.facts, app.fail))

_identify(app, json) ==
    IF ~ValidIDRequest(json) THEN Raise(app, 400, <<>>)
    ELSE IF ~Authorized(app.keys, json.key) THEN Raise(app, 403, <<>>)
    ELSE Identified(app, json.key,
                    _process(json.key, json.contentItems, app.facts, app.fail))

\* _register without `if data.superkey != self.superkey`.
SuperkeyAny(superkey) == TRUE

SuperkeyOk(superkey) == superkey = SUPERKEY

\* _register with `self.keys.add(data.newkey)` ahead of the store call.
RegisterRaisedKeyAdded(app, newkey) ==
    BadRequest([app EXCEPT !.keys = @ \cup {newkey}], app.facts,
               <<RaisedCall("register_key raised", newkey, <<>>)>>)

\* self.store.register_key raises: line 118 is not reached.
RegisterRaised(app, newkey) ==
    BadRequest(app, app.facts, <<RaisedCall("register_key raised", newkey, <<>>)>>)

\* _register with `if registered: self.keys.add(data.newkey)`.
RegisteredOnlyNew(app, newkey, r) ==
    Outcome(IF r.registered THEN app.keys \cup {newkey} ELSE app.keys,
            r.storeKeys, app.facts, 200,
            KeyRegResponse(newkey, r.registered),
            <<RegCall(newkey, r.registered)>>, <<>>)

\* The response of _register to what register_key returned; the key joins
\* the authorized set either way.
Registered(app, newkey, r) ==
    Outcome(app.keys \cup {newkey}, r.storeKeys, app.facts, 200,
            KeyRegResponse(newkey, r.registered),
            <<RegCall(newkey, r.registered)>>, <<>>)

_register(app, json) ==
    IF ~ValidKeyRegRequest(json) THEN Raise(app, 400, <<>>)
    ELSE IF ~SuperkeyOk(json.superkey) THEN Raise(app, 403, <<>>)
    ELSE IF app.fail = 1 THEN RegisterRaised(app, json.newkey)
    ELSE Registered(app, json.newkey, StoreRegisterKey(app.storeKeys, json.newkey))

R_IDENTIFY == "/"
R_REGISTER_KEY == "/register"
Routes == {R_IDENTIFY, R_REGISTER_KEY}

\* _log leaving the loop after the first logger.
_logFirstOnly(success, status) ==
    <<[logger |-> Loggers[1], success |-> success, status |-> status]>>

\* _log: every logger is told once, of a success or of an error.
_log(success, status) ==
    [i \in 1..Len(Loggers) |->
        [logger |-> Loggers[i], success |-> success, status |-> status]]

\* The size check with `>=` for `>`.
TooLargeInclusive(r) == r.content_length >= REQMAXBYTES

\* if req.content_length > self.REQMAXBYTES
TooLarge(r) == r.content_length > REQMAXBYTES

\* __call__ without the logging: the checks in their order, then the handler.
Dispatch(app, r) ==
    IF r.path_info \notin Routes THEN Raise(app, 404, <<>>)
    ELSE IF r.method # "POST" THEN Raise(app, 405, <<>>)
    ELSE IF TooLarge(r) THEN Raise(app, 413, <<>>)
    ELSE IF ~r.parses THEN Raise(app, 400, <<>>)
    ELSE IF r.path_info = R_IDENTIFY THEN _identify(app, r.json)
    ELSE _register(app, r.json)

\* The application and its store, every store call returning.
App == [keys |-> keys, storeKeys |-> storeKeys, facts |-> facts, fail |-> 0]

----------------------------------------------------------------------------
(* History: what the calls so far carried, kept apart from the store *)

\* The (type, value) pairs of a collection, whatever their order.
Pairs(difs) == {difs[i] : i \in DOMAIN difs}

Count(d, difs) == Cardinality({i \in DOMAIN difs : difs[i] = d})

\* The same difs, as many times each, in any order.
IsPermutation(s, t) ==
    /\ Len(s) = Len(t)
    /\ \A d \in Pairs(s) \cup Pairs(t) : Count(d, s) = Count(d, t)

\* The places <<i, j>> of the collections of a sequence of items.
Places(items) ==
    UNION {{<<i, j>> : j \in DOMAIN items[i].difcollections} : i \in DOMAIN items}

DifsAt(items, pl) == items[pl[1]].difcollections[pl[2]].difs

\* The collections an identify request carries, as the history keeps them.
Carried(json) ==
    {<<json.key, Pairs(DifsAt(json.contentItems, pl))>> : pl \in Places(json.contentItems)}

IsIdentifyOK(r, status) == r.path_info = "/" /\ status = 200

\* The history after the call handled last.
Submitted == IF IsIdentifyOK(req, resp.status) THEN known \cup Carried(req.json) ELSE known

\* Whether the authorized set holds the key that request r names.
HadKey(r) ==
    IF "newkey" \in DOMAIN r.json THEN r.json.newkey \in keys
    ELSE IF "key" \in DOMAIN r.json THEN r.json.key \in keys
    ELSE FALSE

\* The places of request r that reorder a collection of the call before it.
Reordered(r, status) ==
    IF /\ IsIdentifyOK(r, status)
       /\ IsIdentifyOK(req, resp.status)
       /\ r.json.key = req.json.key
    THEN {pl \in Places(r.json.contentItems) :
            \E pl0 \in Places(req.json.contentItems) :
                /\ IsPermutation(DifsAt(r.json.contentItems, pl),
                                 DifsAt(req.json.contentItems, pl0))
                /\ DifsAt(r.json.contentItems, pl) # DifsAt(req.json.contentItems, pl0)}
    ELSE {}

----------------------------------------------------------------------------
(* Two identify calls at once: _process step by step *)

Workers == {1, 2}

\* No call in progress: the calls are handled one after the other.
NoThreads == <<>>

RaceColl(v) == [name |-> "c", difs |-> <<[type |-> "t", value |-> v]>>]

\* The bodies of the calls in progress, all under the seeded key.
RaceBodies ==
    {[key |-> "k1", contentItems |-> <<[id |-> "x", difcollections |-> <<RaceColl("v1")>>]>>],
     [key |-> "k1", contentItems |-> <<[id |-> "y", difcollections |-> <<RaceColl("v2")>>]>>],
     [key |-> "k1", contentItems |->
        <<[id |-> "x", difcollections |-> <<RaceColl("v1"), RaceColl("v2")>>]>>],
     [key |-> "k1", contentItems |->
        <<[id |-> "x", difcollections |-> <<RaceColl("v2")>>],
          [id |-> "y", difcollections |-> <<RaceColl("v1")>>]>>]}

\* A call that has not entered __call__ yet; no store call of it raises.
NewThread(body) ==
    [req |-> Request("/", "POST", 100, TRUE, body), pc |-> "start", i |-> 1, j |-> 1,
     uniq |-> TRUE, uniqitems |-> <<>>, dupitems |-> <<>>, verdicts |-> <<>>,
     raised |-> FALSE, resp |-> NoResponse]

ThreadItems(t) == t.req.json.contentItems

\* The difs of the collection the thread is at.
ThreadDifs(t) == DifsAt(ThreadItems(t), <<t.i, t.j>>)

\* The thread leaves with an error: nothing was scanned.
ThreadRaise(t, status) ==
    [t EXCEPT !.pc = "done", !.resp = [status |-> status, body |-> <<>>]]

\* __call__ up to the loop of _process: the checks of __call__ and _identify.
ThreadBegin(t, ks) ==
    IF t.req.path_info \notin Routes THEN ThreadRaise(t, 404)
    ELSE IF t.req.method # "POST" THEN ThreadRaise(t, 405)
    ELSE IF TooLarge(t.req) THEN ThreadRaise(t, 413)
    ELSE IF ~t.req.parses THEN ThreadRaise(t, 400)
    ELSE IF ~ValidIDRequest(t.req.json) THEN ThreadRaise(t, 400)
    ELSE IF ~Authorized(ks, t.req.json.key) THEN ThreadRaise(t, 403)
    ELSE [t EXCEPT !.pc = "has"]

\* The thread is through with the collection at <<i, j>>: the next collection,
\* or the item's verdict and the next item, or the response.
ThreadAdvance(t) ==
    IF t.j < Len(ThreadItems(t)[t.i].difcollections)
    THEN [t EXCEPT !.j = @ + 1, !.pc = "has"]
    ELSE LET c == Classify(ThreadItems(t)[t.i], t)
         IN  IF t.i < Len(ThreadItems(t))
             THEN [c EXCEPT !.i = @ + 1, !.j = 1, !.uniq = TRUE, !.pc = "has"]
             ELSE [c EXCEPT !.pc = "done",
                            !.resp = [status |-> 200,
                                      body |-> IDResponse(c.req.json.key,
                                                  Results(c.uniqitems, c.dupitems))]]

\* A store with a check-and-set: has records the collection it did not find.
ThreadHasAtomic(t, fs) ==
    IF StoreHas(fs, t.req.json.key, ThreadDifs(t))
    THEN [thread |-> ThreadAdvance([t EXCEPT !.uniq = FALSE]), facts |-> fs, ret |-> TRUE]
    ELSE [thread |-> ThreadAdvance(t),
          facts |-> StoreAdd(fs, t.req.json.key, ThreadDifs(t)), ret |-> FALSE]

\* if self.store.has(key, difs): uniq = False
ThreadHas(t, fs) ==
    IF StoreHas(fs, t.req.json.key, ThreadDifs(t))
    THEN [thread |-> ThreadAdvance([t EXCEPT !.uniq = FALSE]), facts |-> fs, ret |-> TRUE]
    ELSE [thread |-> [t EXCEPT !.pc = "add"], facts |-> fs, ret |-> FALSE]

\* else: self.store.add(key, difs)
ThreadAdd(t, fs) ==
    [thread |-> ThreadAdvance(t), facts |-> StoreAdd(fs, t.req.json.key, ThreadDifs(t))]

\* A store call as the store served it, with the worker that made it.
By(p, call) == [by |-> p, call |-> call]

InitRace ==
    /\ keys = SeedKeys
    /\ storeKeys = StoreEnsureKeys({}, SeedKeys)
    /\ facts = {}
    /\ req = NoRequest
    /\ resp = NoResponse
    /\ calls = <<>>
    /\ verdicts = <<>>
    /\ audit = <<>>
    /\ hadKey = FALSE
    /\ known = {}
    /\ reordered = {}
    /\ threads \in [Workers -> {NewThread(b) : b \in RaceBodies}]

\* Worker p enters __call__ and reaches the loop of _process.
RaceBegin(p) ==
    /\ threads[p].pc = "start"
    /\ threads' = [threads EXCEPT ![p] = ThreadBegin(@, keys)]
    /\ UNCHANGED <<keys, storeKeys, facts, req, resp, calls, verdicts, audit, hadKey,
                   known, reordered>>

\* Worker p calls self.store.has (app.py:139).
RaceHas(p) ==
    /\ threads[p].pc = "has"
    /\ \E out \in {ThreadHas(threads[p], facts)} :
          /\ threads' = [threads EXCEPT ![p] = out.thread]
          /\ facts' = out.facts
          /\ calls' = Append(calls,
                By(p, HasCall(threads[p].req.json.key, ThreadDifs(threads[p]), out.ret)))
    /\ UNCHANGED <<keys, storeKeys, req, resp, verdicts, audit, hadKey, known, reordered>>

\* Worker p calls self.store.add (app.py:142).
RaceAdd(p) ==
    /\ threads[p].pc = "add"
    /\ \E out \in {ThreadAdd(threads[p], facts)} :
          /\ threads' = [threads EXCEPT ![p] = out.thread]
          /\ facts' = out.facts
          /\ calls' = Append(calls,
                By(p, AddCall(threads[p].req.json.key, ThreadDifs(threads[p]))))
    /\ UNCHANGED <<keys, storeKeys, req, resp, verdicts, audit, hadKey, known, reordered>>

NextRace == \E p \in Workers : RaceBegin(p) \/ RaceHas(p) \/ RaceAdd(p)

SpecRace == InitRace /\ [][NextRace]_vars

----------------------------------------------------------------------------
(* Calls against a store whose calls may raise *)

FailBodies == [key : Keys, contentItems : {b.contentItems : b \in RaceBodies}]

FailIdentifyRequests == {Request("/", "POST", 100, TRUE, b) : b \in FailBodies}

\* The most store calls the scan of request r makes: a has and an add for
\* every collection.
StoreCallsOf(r) == 2 * Cardinality(Places(r.json.contentItems))

----------------------------------------------------------------------------
(* The calls *)

\* The key ledger a persistent store holds from an earlier run.
Ledgers == {{}, {"k2"}}

\* __init__: the seeded keys, pre-registered with the store; no facts yet.
Init ==
    /\ keys = SeedKeys
    /\ storeKeys \in {StoreEnsureKeys(l, SeedKeys) : l \in Ledgers}
    /\ facts = {}
    /\ req = NoRequest
    /\ resp = NoResponse
    /\ calls = <<>>
    /\ verdicts = <<>>
    /\ audit = <<>>
    /\ hadKey = FALSE
    /\ known = {}
    /\ reordered = {}
    /\ threads = NoThreads

\* One call of POST / with a well-formed body.
Identify ==
    \E r \in IdentifyRequests : \E out \in {Dispatch(App, r)} :
        /\ keys' = out.keys
        /\ storeKeys' = out.storeKeys
        /\ facts' = out.facts
        /\ req' = r
        /\ resp' = [status |-> out.status, body |-> out.body]
        /\ calls' = out.calls
        /\ verdicts' = out.verdicts
        /\ audit' = _log(out.status = 200, out.status)
        /\ hadKey' = HadKey(r)
        /\ known' = Submitted
        /\ reordered' = Reordered(r, out.status)
        /\ threads' = threads

\* One call of POST /register with a well-formed body.
Register ==
    \E r \in RegisterRequests : \E out \in {Dispatch(App, r)} :
        /\ keys' = out.keys
        /\ storeKeys' = out.storeKeys
        /\ facts' = out.facts
        /\ req' = r
        /\ resp' = [status |-> out.status, body |-> out.body]
        /\ calls' = out.calls
        /\ verdicts' = out.verdicts
        /\ audit' = _log(out.status = 200, out.status)
        /\ hadKey' = HadKey(r)
        /\ known' = Submitted
        /\ reordered' = Reordered(r, out.status)
        /\ threads' = threads

\* One call that the routing, the size check, the parse or the schema decides.
Other ==
    \E r \in OtherRequests : \E out \in {Dispatch(App, r)} :
        /\ keys' = out.keys
        /\ storeKeys' = out.storeKeys
        /\ facts' = out.facts
        /\ req' = r
        /\ resp' = [status |-> out.status, body |-> out.body]
        /\ calls' = out.calls
        /\ verdicts' = out.verdicts
        /\ audit' = _log(out.status = 200, out.status)
        /\ hadKey' = HadKey(r)
        /\ known' = Submitted
        /\ reordered' = Reordered(r, out.status)
        /\ threads' = threads

\* One call of a known route with a body that breaks the route's schema.
Invalid ==
    \E r \in InvalidRequests : \E out \in {Dispatch(App, r)} :
        /\ keys' = out.keys
        /\ storeKeys' = out.storeKeys
        /\ facts' = out.facts
        /\ req' = r
        /\ resp' = [status |-> out.status, body |-> out.body]
        /\ calls' = out.calls
        /\ verdicts' = out.verdicts
        /\ audit' = _log(out.status = 200, out.status)
        /\ hadKey' = HadKey(r)
        /\ known' = Submitted
        /\ reordered' = Reordered(r, out.status)
        /\ threads' = threads

Next == Identify \/ Register \/ Other \/ Invalid

\* One call of POST / against a store whose k-th call of the request raises
\* (k = 0: every call returns).
IdentifyFailing ==
    \E r \in FailIdentifyRequests : \E k \in 0..StoreCallsOf(r) :
      \E out \in {Dispatch([App EXCEPT !.fail = k], r)} :
        /\ keys' = out.keys
        /\ storeKeys' = out.storeKeys
        /\ facts' = out.facts
        /\ req' = r
        /\ resp' = [status |-> out.status, body |-> out.body]
        /\ calls' = out.calls
        /\ verdicts' = out.verdicts
        /\ audit' = _log(out.status = 200, out.status)
        /\ hadKey' = HadKey(r)
        /\ known' = Submitted
        /\ reordered' = Reordered(r, out.status)
        /\ threads' = threads

\* One call of POST /register against a store whose register_key may raise.
RegisterFailing ==
    \E r \in RegisterRequests : \E k \in {0, 1} :
      \E out \in {Dispatch([App EXCEPT !.fail = k], r)} :
        /\ keys' = out.keys
        /\ storeKeys' = out.storeKeys
        /\ facts' = out.facts
        /\ req' = r
        /\ resp' = [status |-> out.status, body |-> out.body]
        /\ calls' = out.calls
        /\ verdicts' = out.verdicts
        /\ audit' = _log(out.status = 200, out.status)
        /\ hadKey' = HadKey(r)
        /\ known' = Submitted
        /\ reordered' = Reordered(r, out.status)
        /\ threads' = threads

NextFail == IdentifyFailing \/ RegisterFailing \/ Other \/ Invalid

SpecFail == Init /\ [][NextFail]_vars

Spec == Init /\ [][Next]_vars

----------------------------------------------------------------------------
(* What the call handled last shows *)

IdentifyOK == IsIdentifyOK(req, resp.status)

Items == req.json.contentItems

Key == req.json.key

ItemPlaces(i) == {<<i, j>> : j \in DOMAIN Items[i].difcollections}

\* Place p comes before place q in the scan.
Before(p, q) == p[1] < q[1] \/ (p[1] = q[1] /\ p[2] < q[2])

\* The collection at place pl was carried under the key before it was checked:
\* by an earlier successful request, or earlier in this request.
SeenBefore(pl) ==
    \/ <<Key, Pairs(DifsAt(Items, pl))>> \in known
    \/ \E q \in Places(Items) :
          Before(q, pl) /\ Pairs(DifsAt(Items, q)) = Pairs(DifsAt(Items, pl))

\* Item i was found unique (or not) by the scan and is reported so.
ClassifiedAs(i, uniq) ==
    /\ i \in DOMAIN verdicts
    /\ verdicts[i] = uniq
    /\ \E k \in DOMAIN resp.body.results :
          resp.body.results[k] =
              [id |-> Items[i].id, result |-> IF uniq THEN "unique" ELSE "duplicate"]

IsHas(c) == c.op = "has"

HasCalls == SelectSeq(calls, IsHas)

\* The number of collections of the items before item i.
RECURSIVE Offset(_)
Offset(i) == IF i = 1 THEN 0 ELSE Offset(i - 1) + Len(Items[i - 1].difcollections)

\* The has-check made for the collection at place pl.
HasAt(pl) == HasCalls[Offset(pl[1]) + pl[2]]

----------------------------------------------------------------------------
(* C1..C3: the duplicate-detection rule *)

\* C1: once a collection has been carried by a successful identify request
\* under key K, every later successful identify request under K classifies an
\* item made only of such collections as duplicate, whatever the item's id
\* and whatever calls came in between; in particular an item with the same
\* DifCollections as an earlier item.
C1_ResubmissionIsDuplicate ==
    IdentifyOK =>
        \A i \in DOMAIN Items :
            (\A pl \in ItemPlaces(i) : <<Key, Pairs(DifsAt(Items, pl))>> \in known)
                => ClassifiedAs(i, FALSE)

C1_Witness ==
    /\ IdentifyOK
    /\ Cardinality(known) >= 2
    /\ \E i \in DOMAIN Items :
          /\ \A pl \in ItemPlaces(i) : <<Key, Pairs(DifsAt(Items, pl))>> \in known
          /\ ClassifiedAs(i, FALSE)

\* C2: an item of a successful identify request under K, none of whose
\* collections was carried under K before it is checked (by an earlier
\* request or earlier in the same request), is classified unique.
C2_FirstSightIsUnique ==
    IdentifyOK =>
        \A i \in DOMAIN Items :
            (\A pl \in ItemPlaces(i) : ~SeenBefore(pl)) => ClassifiedAs(i, TRUE)

C2_Witness ==
    /\ IdentifyOK
    /\ known # {}
    /\ \E i \in DOMAIN Items :
          /\ Len(Items[i].difcollections) >= 2
          /\ \A pl \in ItemPlaces(i) : ~SeenBefore(pl)
          /\ ClassifiedAs(i, TRUE)

\* C3: a successful identify request makes one has-check per collection, in
\* scan order, with the request's key and the collection's difs; an item is
\* classified unique exactly when every has-check of its collections returned
\* false, and one collection already recorded under the key makes it duplicate.
C3_ConjunctiveRule ==
    IdentifyOK =>
        /\ Len(HasCalls) = Cardinality(Places(Items))
        /\ \A pl \in Places(Items) :
              HasAt(pl).key = Key /\ HasAt(pl).difs = DifsAt(Items, pl)
        /\ \A i \in DOMAIN Items :
              ClassifiedAs(i, \A pl \in ItemPlaces(i) : ~HasAt(pl).ret)
        /\ \A i \in DOMAIN Items :
              (\E pl \in ItemPlaces(i) : <<Key, Pairs(DifsAt(Items, pl))>> \in known)
                  => ClassifiedAs(i, FALSE)

C3_Witness ==
    /\ IdentifyOK
    /\ \E i \in DOMAIN Items :
          /\ \E pl \in ItemPlaces(i) : HasAt(pl).ret
          /\ \E pl \in ItemPlaces(i) : ~HasAt(pl).ret
          /\ ClassifiedAs(i, FALSE)

----------------------------------------------------------------------------
(* C4..C6: order of difs, key namespaces, order of results *)

\* C4: the engine tells two collections apart only by the unordered set of
\* their (type, value) pairs: every has-check of a successful identify request
\* returns true exactly when a collection with the same pairs was carried
\* under the key before, and a collection that reorders the difs of a
\* collection of the successful request right before it, under the same key,
\* is found by the has-check, is not recorded again and makes its item
\* duplicate.
C4_DifOrderIndependence ==
    IdentifyOK =>
        /\ Len(HasCalls) = Cardinality(Places(Items))
        /\ \A pl \in Places(Items) : HasAt(pl).ret = SeenBefore(pl)
        /\ \A pl \in reordered :
              /\ HasAt(pl).ret
              /\ ClassifiedAs(pl[1], FALSE)
              /\ \A k \in DOMAIN calls :
                    calls[k].op = "add" => calls[k].difs # DifsAt(Items, pl)

C4_Witness ==
    /\ IdentifyOK
    /\ \E pl \in reordered :
          /\ Len(DifsAt(Items, pl)) = 2
          /\ HasAt(pl).ret
          /\ ClassifiedAs(pl[1], FALSE)

\* The facts the store holds under keys other than k.
FactsNotOf(fs, k) == {f \in fs : f[1] # k}

\* C5: the classification of every item of a successful identify request
\* under key K is decided by what was carried under K alone (unique exactly
\* when none of its collections was carried under K before it is checked),
\* whatever other keys have submitted, and a call with a request under K
\* leaves the facts recorded under every other key as they were.
C5_KeyIsolation ==
    /\ [](IdentifyOK =>
            \A i \in DOMAIN Items :
                ClassifiedAs(i, \A pl \in ItemPlaces(i) : ~SeenBefore(pl)))
    /\ [][req' \in IdentifyRequests =>
            FactsNotOf(facts', req'.json.key) = FactsNotOf(facts, req'.json.key)]_vars

\* An item unique under k2 all of whose collections were carried under k1.
C5_Witness ==
    /\ IdentifyOK
    /\ Key = "k2"
    /\ \E i \in DOMAIN Items :
          /\ ClassifiedAs(i, TRUE)
          /\ \A pl \in ItemPlaces(i) : <<"k1", Pairs(DifsAt(Items, pl))>> \in known

\* C6: the response of a successful identify request holds one result per
\* content item, in the order the items were submitted.
C6_ResponseInSubmissionOrder ==
    IdentifyOK =>
        resp.body.results =
            [i \in DOMAIN Items |->
                [id |-> Items[i].id,
                 result |-> IF verdicts[i] THEN "unique" ELSE "duplicate"]]

----------------------------------------------------------------------------
(* C7..C10: registration and authorization *)

\* A well-formed register-key call with the configured super-key.
IsGoodRegister(r) == r \in RegisterRequests /\ r.json.superkey = "sk"

\* C7: a register-key call with the correct super-key is never an error; it
\* reports 'registered' when the store did not hold the key and 'already
\* registered' when it did, and leaves the key in the store's ledger and in
\* the authorized set; no call removes a key from either, so a second
\* registration of the key reports 'already registered' and the key stays
\* authorized in between and afterwards.
C7_RegistrationIdempotence ==
    [][/\ keys \subseteq keys'
       /\ storeKeys \subseteq storeKeys'
       /\ IsGoodRegister(req') =>
            /\ resp'.status = 200
            /\ resp'.body.key = req'.json.newkey
            /\ resp'.body.registered =
                  (IF req'.json.newkey \in storeKeys
                   THEN "already registered" ELSE "registered")
            /\ req'.json.newkey \in storeKeys'
            /\ req'.json.newkey \in keys']_vars

\* A registration of k2 after the registration that authorized it.
C7_Witness ==
    /\ IsGoodRegister(req)
    /\ req.json.newkey = "k2"
    /\ hadKey
    /\ resp.status = 200
    /\ resp.body.registered = "already registered"
    /\ "k2" \in keys

\* C8: a register-key call whose superkey is not the configured one ends in
\* 403, makes no store call and leaves the authorized set, the ledger and the
\* facts as they were.
C8_BadSuperkeyNoEffect ==
    [][(req' \in RegisterRequests /\ req'.json.superkey # "sk") =>
            /\ resp'.status = 403
            /\ calls' = <<>>
            /\ keys' = keys
            /\ storeKeys' = storeKeys
            /\ facts' = facts]_vars

C8_Witness ==
    /\ req \in RegisterRequests
    /\ req.json.superkey = "wrong"
    /\ req.json.newkey = "k2"
    /\ resp.status = 403
    /\ "k2" \notin keys
    /\ facts # {}

\* C9: a well-formed identify call whose key is not in the authorized set
\* ends in 403, makes no store call and leaves the store and the authorized
\* set as they were.
C9_UnknownKeyNoEffect ==
    [][(req' \in IdentifyRequests /\ req'.json.key \notin keys) =>
            /\ resp'.status = 403
            /\ calls' = <<>>
            /\ keys' = keys
            /\ storeKeys' = storeKeys
            /\ facts' = facts]_vars

C9_Witness ==
    /\ req \in IdentifyRequests
    /\ Key = "k2"
    /\ ~hadKey
    /\ resp.status = 403
    /\ calls = <<>>
    /\ facts # {}

\* C10: after a register-key call with the correct super-key the new key is
\* in the authorized set, whether the store reported it new or not; the set
\* never loses a key, and a well-formed identify call with a key of the set
\* passes authorization.
C10_RegisteredKeyAuthorized ==
    [][/\ keys \subseteq keys'
       /\ IsGoodRegister(req') => req'.json.newkey \in keys'
       /\ (req' \in IdentifyRequests /\ req'.json.key \in keys) => resp'.status = 200]_vars

\* k2, which the store holds but the authorized set did not, is authorized
\* by a registration that reports it already registered.
C10_Witness ==
    /\ IsGoodRegister(req)
    /\ req.json.newkey = "k2"
    /\ ~hadKey
    /\ resp.body.registered = "already registered"
    /\ "k2" \in keys

----------------------------------------------------------------------------
(* C11..C12: schema violations and the size ceiling *)

\* C11: a call of a known route whose body parses as JSON and breaks the
\* route's schema (a required field missing, an empty contentItems,
\* difcollections or difs sequence, an undeclared field) ends in 400 with no
\* result body, makes no store call and leaves the store and the authorized
\* set as they were.
C11_SchemaViolationNoEffect ==
    [][req' \in InvalidRequests =>
            /\ resp'.status = 400
            /\ resp'.body = <<>>
            /\ calls' = <<>>
            /\ keys' = keys
            /\ storeKeys' = storeKeys
            /\ facts' = facts]_vars

\* An identify body with an undeclared field, well-formed otherwise and under
\* an authorized key, refused when the store already holds facts.
C11_Witness ==
    /\ req \in InvalidRequests
    /\ "extra" \in DOMAIN req.json
    /\ "contentItems" \in DOMAIN req.json
    /\ hadKey
    /\ resp.status = 400
    /\ calls = <<>>
    /\ facts # {}

\* C12: a POST to a known route whose declared length is greater than 1024
\* ends in 413 whether or not its body would parse, makes no store call and
\* leaves the store and the authorized set as they were; a POST to a known
\* route whose declared length is 1024 or less never ends in 413.
C12_SizeCeiling ==
    [][(req'.path_info \in {"/", "/register"} /\ req'.method = "POST") =>
            IF req'.content_length > REQMAXBYTES
            THEN /\ resp'.status = 413
                 /\ calls' = <<>>
                 /\ keys' = keys
                 /\ storeKeys' = storeKeys
                 /\ facts' = facts
            ELSE resp'.status # 413]_vars

\* An oversized POST / whose body is not JSON, refused for its size when the
\* store already holds facts.
C12_Witness ==
    /\ req.path_info = "/"
    /\ req.method = "POST"
    /\ req.content_length = REQMAXBYTES + 1
    /\ ~req.parses
    /\ resp.status = 413
    /\ facts # {}

----------------------------------------------------------------------------
(* C13..C14: recording during the scan *)

\* The items of the call handled last that were found duplicate.
DupItems == {i \in DOMAIN Items : i \in DOMAIN verdicts /\ ~verdicts[i]}

\* The pairs of the collections of the duplicate items of the call handled last.
DupCarried == {Pairs(DifsAt(Items, pl)) : pl \in UNION {ItemPlaces(i) : i \in DupItems}}

\* C13: every collection of an item that a successful identify request
\* classifies duplicate, and that was not carried under the key before it is
\* checked, is added to the store under the key by that request and is
\* recorded after it; and an item of the next successful identify request
\* under the same key that is made only of collections of such duplicate
\* items is classified duplicate.
C13_DuplicateStillRecords ==
    /\ [](IdentifyOK =>
            \A i \in DupItems : \A pl \in ItemPlaces(i) :
                /\ StoreHas(facts, Key, DifsAt(Items, pl))
                /\ ~SeenBefore(pl) =>
                      \E k \in DOMAIN calls : calls[k] = AddCall(Key, DifsAt(Items, pl)))
    /\ [][(IdentifyOK /\ IdentifyOK' /\ Key' = Key) =>
            \A i \in DOMAIN Items' :
                (\A pl \in ItemPlaces(i)' : Pairs(DifsAt(Items, pl))' \in DupCarried)
                    => ClassifiedAs(i, FALSE)']_vars

\* A duplicate item whose second collection is new: the first was carried
\* before, the second is added by this request.
C13_Witness ==
    /\ IdentifyOK
    /\ \E i \in DupItems :
          /\ ClassifiedAs(i, FALSE)
          /\ <<Key, Pairs(DifsAt(Items, <<i, 1>>))>> \in known
          /\ <<i, 2>> \in ItemPlaces(i)
          /\ ~SeenBefore(<<i, 2>>)
          /\ \E k \in DOMAIN calls : calls[k] = AddCall(Key, DifsAt(Items, <<i, 2>>))
          /\ StoreHas(facts, Key, DifsAt(Items, <<i, 2>>))

\* Two places of the call handled last, in different items, that carry the
\* same collection value; p is in the earlier item.
SharedPlaces ==
    {pq \in Places(Items) \X Places(Items) :
        /\ pq[1][1] < pq[2][1]
        /\ Pairs(DifsAt(Items, pq[1])) = Pairs(DifsAt(Items, pq[2]))}

\* C14: when two items of one successful identify request carry the same
\* collection value, the has-check of the later occurrence returns true and
\* the later item is classified duplicate, and the earlier item is classified
\* by what was carried before its own collections were checked alone: unique
\* exactly when none of them was carried by an earlier request or earlier in
\* this request.
C14_InRequestOrdering ==
    IdentifyOK =>
        \A pq \in SharedPlaces :
            /\ HasAt(pq[2]).ret
            /\ ClassifiedAs(pq[2][1], FALSE)
            /\ ClassifiedAs(pq[1][1], \A pl \in ItemPlaces(pq[1][1]) : ~SeenBefore(pl))

\* A collection not carried before appears in two items: the first is
\* unique, the second duplicate.
C14_Witness ==
    /\ IdentifyOK
    /\ \E pq \in SharedPlaces :
          /\ <<Key, Pairs(DifsAt(Items, pq[1]))>> \notin known
          /\ ~HasAt(pq[1]).ret
          /\ HasAt(pq[2]).ret
          /\ ClassifiedAs(pq[1][1], TRUE)
          /\ ClassifiedAs(pq[2][1], FALSE)

----------------------------------------------------------------------------
(* C15: two identify calls at once *)

AllDone == \A p \in Workers : threads[p].pc = "done"

\* The has-checks worker p made, in order.
HasCallsBy(p) == SelectSeq(calls, LAMBDA c : c.by = p /\ c.call.op = "has")

\* The has-check worker p made for the collection at place pl of its request.
HasBy(p, pl) ==
    HasCallsBy(p)[Cardinality({q \in Places(ThreadItems(threads[p])) : Before(q, pl)}) + 1]

\* Worker p added the collection at place pl of its request to the store.
AddedBy(p, pl) ==
    \E k \in DOMAIN calls :
        calls[k] = By(p, AddCall(threads[p].req.json.key,
                                 DifsAt(ThreadItems(threads[p]), pl)))

\* Worker p found item i unique and reports it so.
UniqueBy(p, i) ==
    /\ threads[p].verdicts[i]
    /\ \E k \in DOMAIN threads[p].resp.body.results :
          threads[p].resp.body.results[k] =
              [id |-> ThreadItems(threads[p])[i].id, result |-> "unique"]

\* C15: has and add are two store calls of their own and nothing holds a
\* worker back between them: a has-check writes nothing and, when it answers
\* 'not seen', leaves its worker before the add; a worker inside the scan can
\* always take its next step, wherever the other worker is; the add records
\* the collection without another check; and each worker classifies an item
\* by the answers its own has-checks got.  Two calls under one key with the
\* same collection can therefore both get 'not seen', both add it and both
\* report their item unique.
C15_CheckThenRecordRace ==
    /\ [][\A p \in Workers :
            /\ (threads[p].pc = "has" /\ threads'[p] # threads[p]) =>
                  /\ facts' = facts
                  /\ ~calls'[Len(calls')].call.ret => threads'[p].pc = "add"
            /\ (threads[p].pc = "add" /\ threads'[p] # threads[p]) =>
                  /\ facts' = StoreAdd(facts, threads[p].req.json.key, ThreadDifs(threads[p]))
                  /\ calls'[Len(calls')].call.op = "add"]_vars
    /\ [](\A p \in Workers :
            threads[p].pc \in {"has", "add"} => ENABLED (RaceHas(p) \/ RaceAdd(p)))
    /\ [](AllDone =>
            \A p \in Workers :
                /\ threads[p].resp.status = 200
                /\ \A pl \in Places(ThreadItems(threads[p])) :
                      /\ StoreHas(facts, threads[p].req.json.key,
                                  DifsAt(ThreadItems(threads[p]), pl))
                      /\ ~HasBy(p, pl).call.ret => AddedBy(p, pl)
                /\ \A i \in DOMAIN ThreadItems(threads[p]) :
                      threads[p].verdicts[i] =
                          (\A pl \in {<<i, j>> : j \in DOMAIN ThreadItems(threads[p])[i].difcollections} :
                              ~HasBy(p, pl).call.ret))

\* Both workers carried the same collection under the same key, both were
\* told 'not seen', both added it and both report their item unique.
C15_Witness ==
    /\ AllDone
    /\ threads[1].req.json.key = threads[2].req.json.key
    /\ \E p1 \in Places(ThreadItems(threads[1])), p2 \in Places(ThreadItems(threads[2])) :
          /\ Pairs(DifsAt(ThreadItems(threads[1]), p1)) = Pairs(DifsAt(ThreadItems(threads[2]), p2))
          /\ ~HasBy(1, p1).call.ret
          /\ ~HasBy(2, p2).call.ret
          /\ AddedBy(1, p1)
          /\ AddedBy(2, p2)
          /\ UniqueBy(1, p1[1])
          /\ UniqueBy(2, p2[1])

----------------------------------------------------------------------------
(* C16..C17: the order of the checks, the audit *)

\* The body of request r is a well-formed body of the route it is sent to.
WellFormed(r) ==
    IF r.path_info = "/" THEN r.json \in IDBodies ELSE r.json \in RegBodies

\* The key the body presents is accepted, given the authorized set ks.
Accepted(r, ks) ==
    IF r.path_info = "/" THEN r.json.key \in ks ELSE r.json.superkey = "sk"

\* The status the first failing check of the per-call state machine gives:
\* route, method, size, JSON parse, schema, authorization, then the engine.
FirstFailing(r, ks) ==
    IF r.path_info \notin {"/", "/register"} THEN 404
    ELSE IF r.method # "POST" THEN 405
    ELSE IF r.content_length > REQMAXBYTES THEN 413
    ELSE IF ~r.parses THEN 400
    ELSE IF ~WellFormed(r) THEN 400
    ELSE IF ~Accepted(r, ks) THEN 403
    ELSE 200

\* C16: every call ends in the status of the first check that fails, the
\* checks taken in the order route, method, size, JSON parse, schema,
\* authorization (404, 405, 413, 400, 400, 403), and in 200 when none fails;
\* a call that a check refuses makes no store call.
C16_CheckOrdering ==
    [][/\ resp'.status = FirstFailing(req', keys)
       /\ resp'.status # 200 => calls' = <<>>]_vars

\* A body that breaks the schema and names a key that is not authorized
\* ends in 400.
C16_Witness ==
    /\ req.path_info = "/"
    /\ req.method = "POST"
    /\ req.json = [key |-> "k2", contentItems |-> <<>>]
    /\ ~hadKey
    /\ "k2" \notin keys
    /\ resp.status = 400

\* The entries of the audit of the call handled last that went to logger l.
AuditOf(l) == {i \in DOMAIN audit : audit[i].logger = l}

\* C17: every call handled, whatever its status, is reported exactly once to
\* each logger: as a success carrying the response when the call ended in
\* 200, as an error carrying the error otherwise, and to no logger as both.
C17_AuditExactlyOnce ==
    req # NoRequest =>
        /\ resp.status \in {200, 400, 403, 404, 405, 413}
        /\ \A k \in DOMAIN Loggers :
              /\ Cardinality(AuditOf(Loggers[k])) = 1
              /\ \A i \in AuditOf(Loggers[k]) :
                    /\ audit[i].success = (resp.status = 200)
                    /\ audit[i].status = resp.status
        /\ \A i \in DOMAIN audit : \E k \in DOMAIN Loggers : audit[i].logger = Loggers[k]

\* A call refused by the key check, reported to both loggers as an error.
C17_Witness ==
    /\ req \in IdentifyRequests
    /\ resp.status = 403
    /\ Len(Loggers) = 2
    /\ audit = <<[logger |-> "log1", success |-> FALSE, status |-> 403],
                 [logger |-> "log2", success |-> FALSE, status |-> 403]>>

----------------------------------------------------------------------------
(* C18..C20: a store that fails *)

\* A store call of the call handled last raised.
StoreRaised == \E k \in DOMAIN calls : calls[k].op \in RaisedOps

\* C18: every call ends in one of 200, 400, 403, 404, 405, 413, never in a
\* 5xx status; a call during which has, add or register_key raised ends in
\* 400 with no result body, and so does a call whose body does not parse.
C18_OnlyKnownOutcomes ==
    req # NoRequest =>
        /\ resp.status \in {200, 400, 403, 404, 405, 413}
        /\ StoreRaised => (resp.status = 400 /\ resp.body = <<>>)
        /\ (req.path_info \in Routes /\ req.method = "POST"
              /\ req.content_length <= REQMAXBYTES /\ ~req.parses) => resp.status = 400

\* add raises for a collection the has-check did not find.
C18_Witness ==
    /\ req \in FailIdentifyRequests
    /\ Len(calls) >= 2
    /\ calls[Len(calls)].op = "add raised"
    /\ calls[Len(calls) - 1].op = "has"
    /\ resp.status = 400

\* C19: the authorized set always holds the seeded keys and never loses a
\* key; a call changes it only when it is a register-key call with the
\* configured super-key that ends in 200 after register_key returned, and
\* then by the new key alone; every identify call and every call that does
\* not end in 200 leaves it as it was.
C19_KeysGrowOnlyByRegistration ==
    /\ [](SeedKeys \subseteq keys)
    /\ [][/\ keys \subseteq keys'
          /\ keys' # keys =>
                /\ req'.path_info = "/register"
                /\ req'.method = "POST"
                /\ req'.json.superkey = "sk"
                /\ resp'.status = 200
                /\ Len(calls') = 1
                /\ calls'[1].op = "register_key"
                /\ keys' = keys \cup {req'.json.newkey}
          /\ req'.path_info = "/" => keys' = keys
          /\ resp'.status # 200 => keys' = keys]_vars

\* A registration of k2 with the right super-key fails in the store: k2 is
\* not authorized.
C19_Witness ==
    /\ req \in RegisterRequests
    /\ req.json = [superkey |-> "sk", newkey |-> "k2"]
    /\ calls = <<RaisedCall("register_key raised", "k2", <<>>)>>
    /\ resp.status = 400
    /\ keys = SeedKeys
    /\ facts # {}

\* The add calls of the call handled last that returned.
Adds == {k \in DOMAIN calls : calls[k].op = "add"}

\* An identify call that ended in 400 because a store call raised.
IdentifyRaised == req.path_info = "/" /\ resp.status = 400 /\ StoreRaised

\* C20: when an identify call ends in 400 because a store call raised, every
\* collection the call added before that is recorded under the key after the
\* call and nothing recorded earlier is lost; and when the same request is
\* sent again right after and ends in 200, every item of it that holds a
\* collection the failed call added is classified duplicate.
C20_NoRollback ==
    /\ [][IdentifyRaised' =>
            /\ facts \subseteq facts'
            /\ \A k \in Adds' : StoreHas(facts', req'.json.key, calls'[k].difs)]_vars
    /\ [][(IdentifyRaised /\ req' = req /\ resp'.status = 200) =>
            \A i \in DOMAIN Items :
                (\E pl \in ItemPlaces(i) : \E k \in Adds :
                    Pairs(calls[k].difs) = Pairs(DifsAt(Items, pl)))
                    => ClassifiedAs(i, FALSE)']_vars

\* The has-check of the second collection raises after the first collection
\* was added: the first stays recorded.
C20_Witness ==
    /\ IdentifyRaised
    /\ Len(calls) = 3
    /\ calls[2].op = "add"
    /\ calls[3].op = "has raised"
    /\ calls[3].difs # calls[2].difs
    /\ StoreHas(facts, Key, calls[2].difs)

====
